---- MODULE Spec2Model ----
(***************************************************************************)
(* Model of the lunovdashboard backend (src/server.js): the session-gated  *)
(* guild configuration routes over the two persisted schemas               *)
(*   - the "guilds" collection of per-guild documents (Mongoose model      *)
(*     Guild, unique index on guildId), and                                *)
(*   - the singleton document {_id: "welcome_channels"} of the collection  *)
(*     "guild_settings" (written through the raw driver).                  *)
(*                                                                         *)
(* Every route handler is an async function: the code up to its first      *)
(* await runs in one step with the request's arrival (the *Start actions), *)
(* and each awaited store or upstream call resolves in a later step, so    *)
(* requests in different slots interleave exactly at the awaits.           *)
(*                                                                         *)
(* Library semantics the handlers rely on (Mongoose 6 or later, which the  *)
(* callback form of req.logout and MongoStore.create date the code to):    *)
(*   - keys of an update whose value is undefined are removed from the     *)
(*     update before it is sent;                                           *)
(*   - an upsert that inserts applies the schema defaults to the paths the *)
(*     update does not set, and takes guildId from the filter;             *)
(*   - a single findOneAndUpdate / updateOne is atomic on its document,    *)
(*     and an insert of a second document with an indexed guildId is       *)
(*     rejected with a duplicate-key error.                                *)
(***************************************************************************)
EXTENDS Integers, Sequences, FiniteSets, TLC

VARIABLES
    sessionUser,  \* req.user as the session middleware delivers it (NoUser: none)
    guilds,       \* the "guilds" collection: documents in insertion order
    legacy,       \* channels map of guild_settings {_id: "welcome_channels"}
    req,          \* per request slot: the handler's position and locals
    out           \* the response the last step sent (NoOut: it sent none)

vars == <<sessionUser, guilds, legacy, req, out>>

\* ------------------------------------------------------------- bounds
\* Number of request slots, i.e. of handlers that can be suspended at once.
MaxReqs == 2

Reqs == 1..MaxReqs

\* ------------------------------------------------------------- values
\* The JavaScript value undefined (an absent body key, an absent document path).
Undefined == "<undefined>"

GuildIds == {"G1", "G2"}

SettingsFields == {"prefix", "muteRole", "welcomeChannel", "leaveChannel", "logChannel"}

\* GuildSchema.settings defaults.
SchemaDefault(f) == IF f = "prefix" THEN "!" ELSE ""

\* MANAGE_GUILD
MANAGE_GUILD == 32

RECURSIVE AndBits(_, _)
AndBits(a, b) ==
    IF a = 0 \/ b = 0 THEN 0
    ELSE (a % 2) * (b % 2) + 2 * AndBits(a \div 2, b \div 2)

\* a & b of JavaScript for 0 <= a, b < 2^31, where the reduction of the operands
\* to 32 bits changes nothing.
BitAnd(a, b) == AndBits(a, b)

\* An entry of profile.guilds as the identity provider reports it.
GuildEntry(g, perms) ==
    [id |-> g, name |-> "name of " \o g, icon |-> "icon of " \o g, permissions |-> perms]

\* No req.user: the session carries no identity.
NoUser == [id |-> Undefined, guilds |-> <<>>]

\* The identities that can log in: UserA may manage G1 (0x28) and is a plain
\* member of G2 (0x8); UserB may manage G2 (0x20) and is not in G1.
UserA == [id |-> "A", guilds |-> <<GuildEntry("G1", 40), GuildEntry("G2", 8)>>]
UserB == [id |-> "B", guilds |-> <<GuildEntry("G2", 32)>>]

Users == {UserA, UserB}

\* Longest profile.guilds list of the identities the gate is checked on.
MaxMemberships == 2

\* Bitmasks of those identities: with and without the bit of weight 32, the
\* empty mask, masks with every lower or every other bit set.
GatePerms == {0, 1, 8, 16, 31, 32, 33, 40, 63, 2147483615, 2147483647}

GateEntries == {GuildEntry(g, m) : g \in GuildIds, m \in GatePerms}

\* The provider lists each guild of the account once.
GateLists(n) ==
    {s \in [1..n -> GateEntries] : \A i, j \in 1..n : s[i].id = s[j].id => i = j}

GateUsers ==
    {[id |-> "X", guilds |-> s] : s \in UNION {GateLists(n) : n \in 0..MaxMemberships}}

\* Request bodies of POST /api/guild/:id after the destructuring of lines 223-224:
\* each of the five names is a string of the body or undefined.
Body(prefix, muteRole, welcomeChannel) ==
    [prefix |-> prefix, muteRole |-> muteRole, welcomeChannel |-> welcomeChannel,
     leaveChannel |-> Undefined, logChannel |-> Undefined]

UpdateBodies ==
    { Body(p, m, Undefined) : p \in {Undefined, "?"}, m \in {Undefined, "R"} }

\* Values of welcomeChannel in the body of POST /api/guild/:id/welcome-channel.
WelcomeValues == {"12345", "67890"}

\* ------------------------------------------------------------- responses
NoOut == [op |-> "", guildId |-> "", status |-> 0, body |-> [none |-> TRUE]]

Response(op, g, status, body) == [op |-> op, guildId |-> g, status |-> status, body |-> body]

ErrorBody(msg) == [error |-> msg]

Idle == [pc |-> "idle"]

\* ------------------------------------------------------------- permission checks
\* Array.prototype.find, given the indices I of the elements that pass the test:
\* the index of the first of them, 0 for undefined.
Find(I) == IF I = {} THEN 0 ELSE CHOOSE i \in I : \A j \in I : i <= j

\* The check with && written for &: any non-zero bitmask passes.
HasManagedGuild_LogicalAnd(user, guildId) ==
    LET Test(g) == g.id = guildId /\ g.permissions # 0
    IN  Find({i \in 1..Len(user.guilds) : Test(user.guilds[i])}) # 0

\* Lines 154-157 and 256-260: find(g => g.id === guildId && (g.permissions & 0x20)).
HasManagedGuild(user, guildId) ==
    LET Test(g) == g.id = guildId /\ BitAnd(g.permissions, MANAGE_GUILD) # 0
    IN  Find({i \in 1..Len(user.guilds) : Test(user.guilds[i])}) # 0

\* Line 185: req.user.guilds?.find(g => g.id === guildId).
UserGuildIndex(user, guildId) ==
    LET Test(g) == g.id = guildId
    IN  Find({i \in 1..Len(user.guilds) : Test(user.guilds[i])})

\* The check against the wrong bit: 0x8 (administrator) instead of 0x20.
HasPermission_WrongBit(userGuild) == BitAnd(userGuild.permissions, 8) = 8

\* Line 191: (userGuild.permissions & 0x20) === 0x20.
HasPermission(userGuild) == BitAnd(userGuild.permissions, MANAGE_GUILD) = MANAGE_GUILD

\* ------------------------------------------------------------- the store
\* Guild.findOne({guildId}): the index of the first matching document, 0 for null.
FindOne(coll, guildId) ==
    LET Test(d) == d.guildId = guildId
    IN  Find({i \in 1..Len(coll) : Test(coll[i])})

DefaultSettings == [f \in SettingsFields |-> SchemaDefault(f)]

\* The schema without unique: true.
DuplicateKey_NoIndex(coll, guildId) == FALSE

\* The unique index on guildId (line 39) rejects an insert whose guildId is taken.
DuplicateKey(coll, guildId) == \E i \in 1..Len(coll) : coll[i].guildId = guildId

NewDoc(coll, guildId, name, icon, settings) ==
    [_id |-> Len(coll) + 1, guildId |-> guildId, name |-> name, icon |-> icon,
     settings |-> settings]

\* The update sent as written, undefined values included.
SetPaths_KeepUndefined(body) == SettingsFields

\* The paths of $set (lines 229-235) that reach the store: Mongoose drops the keys
\* whose value is undefined when it casts the update.
SetPaths(body) == {f \in SettingsFields : body[f] # Undefined}

ApplySet(settings, body) ==
    [f \in SettingsFields |-> IF f \in SetPaths(body) THEN body[f] ELSE settings[f]]

\* $set of the whole settings object instead of its dotted paths.
FindOneAndUpdate_WholeSettings(coll, guildId, body) ==
    LET i == FindOne(coll, guildId)
    IN  IF i # 0
        THEN [coll EXCEPT ![i].settings = ApplySet(DefaultSettings, body)]
        ELSE Append(coll, NewDoc(coll, guildId, Undefined, Undefined,
                                 ApplySet(DefaultSettings, body)))

\* Guild.findOneAndUpdate({guildId}, {$set: ...}, {new: true, upsert: true}).
FindOneAndUpdate(coll, guildId, body) ==
    LET i == FindOne(coll, guildId)
    IN  IF i # 0
        THEN [coll EXCEPT ![i].settings = ApplySet(coll[i].settings, body)]
        ELSE Append(coll, NewDoc(coll, guildId, Undefined, Undefined,
                                 ApplySet(DefaultSettings, body)))

\* The update with the whole channels object as its $set operand: the keys of the
\* other guilds are dropped.
SetLegacyChannel_WholeObject(map, guildId, welcomeChannel) ==
    [g \in GuildIds |-> IF g = guildId THEN welcomeChannel ELSE Undefined]

\* $setOnInsert-like behaviour: an entry that exists is kept.
SetLegacyChannel_KeepFirst(map, guildId, v) ==
    IF map[guildId] = Undefined THEN [map EXCEPT ![guildId] = v] ELSE map

\* updateOne({_id: "welcome_channels"}, {$set: {["channels." + guildId]: v}},
\* {upsert: true}) on the channels map; Undefined marks a key the map lacks.
SetLegacyChannel(map, guildId, v) == [map EXCEPT ![guildId] = v]

\* ------------------------------------------------------------- initial state
Init ==
    /\ sessionUser = NoUser
    /\ guilds = <<>>
    /\ legacy = [g \in GuildIds |-> Undefined]
    /\ req = [r \in Reqs |-> Idle]
    /\ out = NoOut

\* ------------------------------------------------------------- session
\* Lines 102-106, 77: the provider's profile becomes req.user of the session.
\* The completed callback as one step; CallbackStart and CallbackDone below take
\* the route step by step.
Login(u) ==
    /\ sessionUser' = u
    /\ out' = NoOut
    /\ UNCHANGED <<guilds, legacy, req>>

\* Lines 109-117: req.logout and session.destroy drop the identity. The completed
\* logout as one step; LogoutStart to LogoutDestroyed below take the route step by
\* step.
Logout ==
    /\ sessionUser # NoUser
    /\ sessionUser' = NoUser
    /\ out' = NoOut
    /\ UNCHANGED <<guilds, legacy, req>>

\* A response ends the request: the slot is free again.
Respond(r, resp) ==
    /\ req' = [req EXCEPT ![r] = Idle]
    /\ out' = resp

Suspend(r, slot) ==
    /\ req' = [req EXCEPT ![r] = slot]
    /\ out' = NoOut

\* ------------------------------------------------------------- GET /api/guild/:id
\* The handler answering 403 where the guild is not in the list, as the
\* welcome-channel and channel-list routes do.
GetStart_Absent403(r, g) ==
    /\ req[r] = Idle
    /\ UNCHANGED <<sessionUser, guilds, legacy>>
    /\ IF sessionUser = NoUser
       THEN Respond(r, Response("get", g, 401, ErrorBody("Not logged in")))
       ELSE LET i == UserGuildIndex(sessionUser, g)
            IN  IF i = 0 \/ ~HasPermission(sessionUser.guilds[IF i = 0 THEN 1 ELSE i])
                THEN Respond(r, Response("get", g, 403,
                                 ErrorBody("Missing MANAGE_GUILD permission")))
                ELSE Suspend(r, [pc |-> "findOne", op |-> "get", guildId |-> g,
                                 name |-> sessionUser.guilds[i].name,
                                 icon |-> sessionUser.guilds[i].icon])

\* Lines 177-199.
GetStart(r, g) ==
    /\ req[r] = Idle
    /\ UNCHANGED <<sessionUser, guilds, legacy>>
    /\ IF sessionUser = NoUser
       THEN Respond(r, Response("get", g, 401, ErrorBody("Not logged in")))
       ELSE LET i == UserGuildIndex(sessionUser, g)
            IN  IF i = 0
                THEN Respond(r, Response("get", g, 404,
                                 ErrorBody("Guild not found in user's servers")))
                ELSE IF ~HasPermission(sessionUser.guilds[i])
                THEN Respond(r, Response("get", g, 403,
                                 ErrorBody("Missing MANAGE_GUILD permission")))
                ELSE Suspend(r, [pc |-> "findOne", op |-> "get", guildId |-> g,
                                 name |-> sessionUser.guilds[i].name,
                                 icon |-> sessionUser.guilds[i].icon])

\* The handler without the if (!record) of line 200: it always creates.
GetFindOne_AlwaysCreate(r) ==
    /\ req[r].pc = "findOne"
    /\ UNCHANGED <<sessionUser, guilds, legacy>>
    /\ Suspend(r, [req[r] EXCEPT !.pc = "create"])

\* Line 199 resolves; lines 200-210 run up to Guild.create or to the response.
GetFindOne(r) ==
    /\ req[r].pc = "findOne"
    /\ UNCHANGED <<sessionUser, guilds, legacy>>
    /\ LET i == FindOne(guilds, req[r].guildId)
       IN  IF i # 0
           THEN Respond(r, Response("get", req[r].guildId, 200, guilds[i]))
           ELSE Suspend(r, [req[r] EXCEPT !.pc = "create"])

\* Line 202 resolves: the insert, or the duplicate-key error caught at 211-214.
GetCreate(r) ==
    /\ req[r].pc = "create"
    /\ UNCHANGED <<sessionUser, legacy>>
    /\ IF DuplicateKey(guilds, req[r].guildId)
       THEN /\ guilds' = guilds
            /\ Respond(r, Response("get", req[r].guildId, 500,
                                   ErrorBody("Internal server error")))
       ELSE LET doc == NewDoc(guilds, req[r].guildId, req[r].name, req[r].icon,
                              DefaultSettings)
            IN  /\ guilds' = Append(guilds, doc)
                /\ Respond(r, Response("get", req[r].guildId, 200, doc))

\* ------------------------------------------------------------- POST /api/guild/:id
\* The destructuring with a truthiness test: an empty string counts as missing.
Destructure_FalsyDropped(body) ==
    [f \in SettingsFields |->
        IF f \in DOMAIN body /\ body[f] # "" THEN body[f] ELSE Undefined]

\* Lines 223-224: the five names are read from req.body; a name the body lacks
\* is undefined, and any other key of the body is not read.
Destructure(body) ==
    [f \in SettingsFields |-> IF f \in DOMAIN body THEN body[f] ELSE Undefined]

\* Lines 218-226.
UpdateStart(r, g, body) ==
    /\ req[r] = Idle
    /\ UNCHANGED <<sessionUser, guilds, legacy>>
    /\ IF sessionUser = NoUser
       THEN Respond(r, Response("update", g, 401, ErrorBody("Unauthorized")))
       ELSE Suspend(r, [pc |-> "findOneAndUpdate", op |-> "update", guildId |-> g,
                        body |-> Destructure(body)])

\* Lines 226-240: the upsert commits and the handler answers.
UpdateCommit(r) ==
    /\ req[r].pc = "findOneAndUpdate"
    /\ guilds' = FindOneAndUpdate(guilds, req[r].guildId, req[r].body)
    /\ Respond(r, Response("update", req[r].guildId, 200, [success |-> TRUE]))
    /\ UNCHANGED <<sessionUser, legacy>>

\* ------------------------------------------------------ POST .../welcome-channel
\* The handler without line 249.
WelcomeStart_NoSessionCheck(r, g, v) ==
    /\ req[r] = Idle
    /\ UNCHANGED <<sessionUser, guilds, legacy>>
    /\ IF ~HasManagedGuild(sessionUser, g)
       THEN Respond(r, Response("welcome", g, 403,
                                ErrorBody("Missing MANAGE_GUILD permission")))
       ELSE Suspend(r, [pc |-> "updateOne", op |-> "welcome", guildId |-> g,
                        welcomeChannel |-> v])

WelcomeStart(r, g, v) ==
    /\ req[r] = Idle
    /\ UNCHANGED <<sessionUser, guilds, legacy>>
    /\ IF sessionUser = NoUser
       THEN Respond(r, Response("welcome", g, 401, ErrorBody("Unauthorized")))
       ELSE IF ~HasManagedGuild(sessionUser, g)
       THEN Respond(r, Response("welcome", g, 403,
                                ErrorBody("Missing MANAGE_GUILD permission")))
       ELSE Suspend(r, [pc |-> "updateOne", op |-> "welcome", guildId |-> g,
                        welcomeChannel |-> v])

\* The handler "repaired" to write the dashboard schema as well.
WelcomeCommit_AlsoDashboard(r) ==
    /\ req[r].pc = "updateOne"
    /\ legacy' = SetLegacyChannel(legacy, req[r].guildId, req[r].welcomeChannel)
    /\ guilds' = FindOneAndUpdate(guilds, req[r].guildId,
                                  Body(Undefined, Undefined, req[r].welcomeChannel))
    /\ Respond(r, Response("welcome", req[r].guildId, 200,
                  [success |-> TRUE, guildId |-> req[r].guildId,
                   welcomeChannel |-> req[r].welcomeChannel]))
    /\ UNCHANGED sessionUser

\* Lines 266-285.
WelcomeCommit(r) ==
    /\ req[r].pc = "updateOne"
    /\ legacy' = SetLegacyChannel(legacy, req[r].guildId, req[r].welcomeChannel)
    /\ Respond(r, Response("welcome", req[r].guildId, 200,
                  [success |-> TRUE, guildId |-> req[r].guildId,
                   welcomeChannel |-> req[r].welcomeChannel]))
    /\ UNCHANGED <<sessionUser, guilds>>

\* ------------------------------------------- GET /api/discord/:guildId/channels
ChannelsStart(r, g) ==
    /\ req[r] = Idle
    /\ UNCHANGED <<sessionUser, guilds, legacy>>
    /\ IF sessionUser = NoUser
       THEN Respond(r, Response("channels", g, 401, ErrorBody("Unauthorized")))
       ELSE IF ~HasManagedGuild(sessionUser, g)
       THEN Respond(r, Response("channels", g, 403, ErrorBody("Missing permissions")))
       ELSE Suspend(r, [pc |-> "fetch", op |-> "channels", guildId |-> g])

\* Lines 160-169: the upstream answer is passed on.
ChannelsDone(r) ==
    /\ req[r].pc = "fetch"
    /\ Respond(r, Response("channels", req[r].guildId, 200, [channels |-> "upstream"]))
    /\ UNCHANGED <<sessionUser, guilds, legacy>>

\* ------------------------------------------------------------- GET /api/guilds
\* The automation actor's entry of a guild, as the provider lists it.
BotEntry(g) == GuildEntry(g, 1024)

\* The filter with the two lists exchanged: the actor's entries are returned.
MutualGuilds_FromBot(userGuilds, botGuilds) ==
    LET Test(b) == \E i \in 1..Len(userGuilds) : userGuilds[i].id = b.id
    IN  SelectSeq(botGuilds, Test)

\* Lines 135-137: userGuilds.filter(g => botGuilds.find(b => b.id === g.id)).
MutualGuilds(userGuilds, botGuilds) ==
    LET Test(g) == \E j \in 1..Len(botGuilds) : botGuilds[j].id = g.id
    IN  SelectSeq(userGuilds, Test)

\* Lines 127-131: the identity's list is read, then the fetch is awaited.
MutualStart(r) ==
    /\ req[r] = Idle
    /\ UNCHANGED <<sessionUser, guilds, legacy>>
    /\ IF sessionUser = NoUser
       THEN Respond(r, Response("guilds", "", 401, ErrorBody("Not logged in")))
       ELSE Suspend(r, [pc |-> "fetchGuilds", op |-> "guilds", guildId |-> "",
                        userGuilds |-> sessionUser.guilds])

\* Lines 131-133: the provider answers with the actor's list; r.json() is pending.
MutualFetched(r, botGuilds) ==
    /\ req[r].pc = "fetchGuilds"
    /\ UNCHANGED <<sessionUser, guilds, legacy>>
    /\ Suspend(r, [pc |-> "json", op |-> "guilds", guildId |-> "",
                   userGuilds |-> req[r].userGuilds, upstream |-> botGuilds])

\* Lines 133-139: the body is parsed, filtered and sent.
MutualDone(r) ==
    /\ req[r].pc = "json"
    /\ UNCHANGED <<sessionUser, guilds, legacy>>
    /\ Respond(r, Response("guilds", "", 200,
                  [guilds |-> MutualGuilds(req[r].userGuilds, req[r].upstream)]))

\* ------------------------------------------------------------- auth routes
\* Line 99: the client is sent to the provider; nothing is kept locally.
AuthBegin(r) ==
    /\ req[r] = Idle
    /\ UNCHANGED <<sessionUser, guilds, legacy>>
    /\ Respond(r, Response("begin", "", 302, [location |-> "provider"]))

\* Lines 102-104: the code of the callback is exchanged at the provider.
CallbackStart(r) ==
    /\ req[r] = Idle
    /\ UNCHANGED <<sessionUser, guilds, legacy>>
    /\ Suspend(r, [pc |-> "exchange", op |-> "callback", guildId |-> ""])

\* Lines 89-92, 77, 105: the verified profile becomes the session's identity.
CallbackDone(r, u) ==
    /\ req[r].pc = "exchange"
    /\ sessionUser' = u
    /\ Respond(r, Response("callback", "", 302, [location |-> "/account.html"]))
    /\ UNCHANGED <<guilds, legacy>>

\* Line 104: failureRedirect.
CallbackFail(r) ==
    /\ req[r].pc = "exchange"
    /\ Respond(r, Response("callback", "", 302, [location |-> "/"]))
    /\ UNCHANGED <<sessionUser, guilds, legacy>>

\* The route with the session check of its neighbours put in front.
LogoutStart_RequiresUser(r) ==
    /\ req[r] = Idle
    /\ UNCHANGED <<sessionUser, guilds, legacy>>
    /\ IF sessionUser = NoUser
       THEN Respond(r, Response("logout", "", 401, ErrorBody("Not logged in")))
       ELSE Suspend(r, [pc |-> "logout", op |-> "logout", guildId |-> "",
                        user |-> sessionUser])

\* Lines 109-110: no check of req.user; req.logout works on the session store.
LogoutStart(r) ==
    /\ req[r] = Idle
    /\ UNCHANGED <<sessionUser, guilds, legacy>>
    /\ Suspend(r, [pc |-> "logout", op |-> "logout", guildId |-> "",
                   user |-> sessionUser])

\* req.logout calling back without having removed the identity.
LogoutDone_KeepIdentity(r) ==
    /\ req[r].pc = "logout"
    /\ sessionUser' = sessionUser
    /\ Suspend(r, [req[r] EXCEPT !.pc = "destroy"])
    /\ UNCHANGED <<guilds, legacy>>

\* Lines 110-112: req.logout calls back without error, the identity is removed
\* from the session; session.destroy is pending.
LogoutDone(r) ==
    /\ req[r].pc = "logout"
    /\ sessionUser' = NoUser
    /\ Suspend(r, [req[r] EXCEPT !.pc = "destroy"])
    /\ UNCHANGED <<guilds, legacy>>

\* Lines 110-111: req.logout calls back with an error, raised before or after the
\* identity was removed from the stored session.
LogoutFails(r) ==
    /\ req[r].pc = "logout"
    /\ sessionUser' \in {sessionUser, NoUser}
    /\ Respond(r, Response("logout", "", 500, ErrorBody("Failed to logout")))
    /\ UNCHANGED <<guilds, legacy>>

\* Lines 112-115: the callback of session.destroy takes no error argument.
LogoutDestroyed(r) ==
    /\ req[r].pc = "destroy"
    /\ Respond(r, Response("logout", "", 200,
                  [success |-> TRUE, clearCookie |-> "connect.sid"]))
    /\ UNCHANGED <<sessionUser, guilds, legacy>>

\* Lines 120-123.
Me(r) ==
    /\ req[r] = Idle
    /\ UNCHANGED <<sessionUser, guilds, legacy>>
    /\ IF sessionUser = NoUser
       THEN Respond(r, Response("me", "", 401, ErrorBody("Not logged in")))
       ELSE Respond(r, Response("me", "", 200, sessionUser))

\* ------------------------------------------- GET /api/debug/welcome-channels
\* Guilds that have a key in the channels object of the legacy document.
LegacyKeys(map) == {g \in GuildIds : map[g] # Undefined}

\* Lines 298-300, 311-312: the legacy document as it is reported. The document
\* exists once a welcome channel was saved (upsert of line 273).
BotFormat(map) ==
    IF LegacyKeys(map) = {}
    THEN [data |-> [message |-> "No welcome channels set in bot format"],
          guildCount |-> 0]
    ELSE [data |-> [_id |-> "welcome_channels",
                    channels |-> [g \in LegacyKeys(map) |-> map[g]]],
          guildCount |-> Cardinality(LegacyKeys(map))]

\* Line 305: select("guildId settings.welcomeChannel") keeps _id as well.
Select(doc) ==
    [_id |-> doc._id, guildId |-> doc.guildId,
     settings |-> [welcomeChannel |-> doc.settings.welcomeChannel]]

RECURSIVE MapSelect(_)
MapSelect(docs) ==
    IF docs = <<>> THEN <<>> ELSE <<Select(Head(docs))>> \o MapSelect(Tail(docs))

\* The query without its filter: every document is listed.
DashboardWelcome_NoFilter(coll) == MapSelect(coll)

\* Lines 303-305: Guild.find({"settings.welcomeChannel": {$ne: ""}}).select(...).
DashboardWelcome(coll) ==
    LET Test(doc) == doc.settings.welcomeChannel # ""
    IN  MapSelect(SelectSeq(coll, Test))

\* Lines 293-300: no session check; the legacy document is read.
ReportStart(r) ==
    /\ req[r] = Idle
    /\ UNCHANGED <<sessionUser, guilds, legacy>>
    /\ Suspend(r, [pc |-> "legacyFindOne", op |-> "report", guildId |-> ""])

\* Lines 298-305: the legacy document arrived; the collection is queried.
ReportLegacyRead(r) ==
    /\ req[r].pc = "legacyFindOne"
    /\ UNCHANGED <<sessionUser, guilds, legacy>>
    /\ Suspend(r, [pc |-> "guildFind", op |-> "report", guildId |-> "",
                   bot_format |-> BotFormat(legacy)])

\* Lines 303-323: the documents arrived; both sides are sent as they were read.
ReportDone(r) ==
    /\ req[r].pc = "guildFind"
    /\ UNCHANGED <<sessionUser, guilds, legacy>>
    /\ LET data == DashboardWelcome(guilds)
       IN  Respond(r, Response("report", "", 200,
                      [bot_format |-> req[r].bot_format,
                       dashboard_format |-> [data |-> data, guildCount |-> Len(data)]]))

\* ------------------------------------------------------------- failures
FailureMessage(op) ==
    CASE op = "get" -> "Internal server error"
      [] op = "update" -> "Failed to update guild settings"
      [] op = "welcome" -> "Failed to save welcome channel"
      [] op = "channels" -> "Failed to fetch channels"
      [] op = "guilds" -> "Failed to fetch guilds"
      [] op = "callback" -> "Internal Server Error"
      [] op = "report" -> "error.message"

\* An awaited store or upstream call rejects: the catch block answers 500 (the
\* error handler of the framework for the callback). The logout route has no
\* awaited call: its failures are LogoutFails.
AwaitFails(r) ==
    /\ req[r] # Idle
    /\ req[r].op # "logout"
    /\ Respond(r, Response(req[r].op, req[r].guildId, 500,
                           ErrorBody(FailureMessage(req[r].op))))
    /\ UNCHANGED <<sessionUser, guilds, legacy>>

\* ------------------------------------------------------------- specification
SessionStep ==
    \/ \E u \in Users : Login(u)
    \/ Logout

\* The two routes over the "guilds" collection.
SettingsStep(r) ==
    \/ \E g \in GuildIds : GetStart(r, g)
    \/ GetFindOne(r)
    \/ GetCreate(r)
    \/ \E g \in GuildIds, b \in UpdateBodies : UpdateStart(r, g, b)
    \/ UpdateCommit(r)

\* The route over the legacy welcome map.
WelcomeStep(r) ==
    \/ \E g \in GuildIds, v \in WelcomeValues : WelcomeStart(r, g, v)
    \/ WelcomeCommit(r)

ChannelsStep(r) ==
    \/ \E g \in GuildIds : ChannelsStart(r, g)
    \/ ChannelsDone(r)

\* The routes that take a guild id, requests suspended in any of the slots, with
\* the changes of the session taken as single steps.
Next ==
    \/ SessionStep
    \/ \E r \in Reqs : SettingsStep(r)
    \/ \E r \in Reqs : WelcomeStep(r)
    \/ \E r \in Reqs : ChannelsStep(r)
    \/ \E r \in Reqs : AwaitFails(r)

Spec == Init /\ [][Next]_vars

\* The same routes, one request at a time: the behaviours of Spec in which a
\* request arrives only after the one before it was answered.
SerialNext ==
    \/ SessionStep
    \/ SettingsStep(1)
    \/ WelcomeStep(1)
    \/ ChannelsStep(1)
    \/ AwaitFails(1)

SerialSpec == Init /\ [][SerialNext]_vars

\* The routes over the "guilds" collection with requests suspended in any of the
\* slots, for a session that keeps the identity it logged in with: the behaviours
\* of Spec after a login, without welcome-channel and channel-list requests.
SettingsInit ==
    /\ sessionUser \in Users
    /\ guilds = <<>>
    /\ legacy = [g \in GuildIds |-> Undefined]
    /\ req = [r \in Reqs |-> Idle]
    /\ out = NoOut

SettingsNext ==
    \/ \E r \in Reqs : SettingsStep(r)
    \/ \E r \in Reqs : AwaitFails(r)

SettingsSpec == SettingsInit /\ [][SettingsNext]_vars

\* ------------------------------------------------------------- properties
\* The Permission Gate as the specification states it (section 4.2): the entry of
\* the target guild carries the manage-guild bit, the bit of weight 32.
CarriesBit(m) == (m \div 32) % 2 = 1

Memberships(user, g) == {i \in 1..Len(user.guilds) : user.guilds[i].id = g}

CanAdminister(user, g) ==
    \E i \in Memberships(user, g) : CarriesBit(user.guilds[i].permissions)

LacksBit(user, g) ==
    /\ Memberships(user, g) # {}
    /\ \A i \in Memberships(user, g) : ~CarriesBit(user.guilds[i].permissions)

DocsOf(coll, g) == {i \in 1..Len(coll) : coll[i].guildId = g}

\* A step in which a request is answered on arrival, before any awaited call.
AnsweredOnArrival == req' = req /\ out' # NoOut

\* A step in which the request of slot r is answered after an awaited call.
AnsweredAfter(r, pc, status) ==
    /\ req[r].pc = pc
    /\ req'[r] = Idle
    /\ out'.status = status

StoresUnchanged == guilds' = guilds /\ legacy' = legacy

\* C1: a request to update the configuration of a guild that the caller's identity
\* cannot administer is answered on arrival with 403 or 404, never suspended at
\* the store call, and leaves the collection as it is.
C1_UpdateIsGated ==
    [][\A r \in Reqs :
          (/\ sessionUser # NoUser
           /\ req[r] = Idle
           /\ req'[r] # Idle
           /\ req'[r].op = "update")
          => CanAdminister(sessionUser, req'[r].guildId)]_vars

\* C2: while the session carries no identity, a request to get or update the
\* configuration or to set the welcome channel is answered 401 on arrival, is
\* never suspended at a store call, and changes neither store.
C2_Unauthenticated401 ==
    [][sessionUser = NoUser =>
          /\ \A r \in Reqs : req[r] = Idle => req'[r] = Idle
          /\ (AnsweredOnArrival /\ out'.op \in {"get", "update", "welcome"})
                => out'.status = 401 /\ StoresUnchanged]_vars

C2_Witness ==
    /\ out.op = "welcome"
    /\ out.status = 401
    /\ Len(guilds) > 0
    /\ \E g \in GuildIds : legacy[g] # Undefined

\* C3: an authenticated caller whose entry for the target guild lacks the
\* manage-guild bit is answered 403 on arrival by get configuration and by set
\* welcome channel; the request is never suspended at a store call and neither
\* store changes.
C3_LackingBit403 ==
    [][sessionUser # NoUser =>
          /\ \A r \in Reqs :
                (req[r] = Idle /\ req'[r] # Idle /\ req'[r].op \in {"get", "welcome"})
                => ~LacksBit(sessionUser, req'[r].guildId)
          /\ (/\ AnsweredOnArrival
              /\ out'.op \in {"get", "welcome"}
              /\ LacksBit(sessionUser, out'.guildId))
                => out'.status = 403 /\ StoresUnchanged]_vars

C3_Witness ==
    /\ out.op = "get"
    /\ out.status = 403
    /\ out.guildId = "G2"
    /\ sessionUser = UserA
    /\ DocsOf(guilds, "G2") = {}

\* C4: the step that commits a welcome-channel request sets the map's entry of
\* its guild to the request's value and changes nothing else: the other entries
\* of the map and the whole collection of guild documents stay as they are.
C4_WelcomeWritesOnlyLegacy ==
    [][\A r \in Reqs :
          AnsweredAfter(r, "updateOne", 200) =>
             /\ legacy'[req[r].guildId] = req[r].welcomeChannel
             /\ \A g \in GuildIds \ {req[r].guildId} : legacy'[g] = legacy[g]
             /\ guilds' = guilds]_vars

C4_Witness ==
    /\ out.op = "welcome"
    /\ out.status = 200
    /\ out.guildId = "G1"
    /\ legacy["G1"] = "12345"
    /\ legacy["G2"] # Undefined
    /\ \E i \in DocsOf(guilds, "G1") : guilds[i].settings.welcomeChannel = ""

\* C5: the step that commits an update writes the fields its body names and
\* leaves every other field of the document as it was; no field the body does
\* not name is reset. So {prefix: "?"} followed by {muteRole: "R"} keeps "?".
C5_PartialUpdate ==
    [][\A r \in Reqs :
          AnsweredAfter(r, "findOneAndUpdate", 200) =>
             LET g == req[r].guildId
                 b == req[r].body
             IN  /\ DocsOf(guilds', g) # {}
                 /\ \A j \in DocsOf(guilds', g), f \in SettingsFields :
                       IF b[f] # Undefined
                       THEN guilds'[j].settings[f] = b[f]
                       ELSE \A i \in DocsOf(guilds, g) :
                               guilds'[j].settings[f] = guilds[i].settings[f]]_vars

C5_Witness ==
    /\ out.op = "update"
    /\ out.status = 200
    /\ \E i \in DocsOf(guilds, out.guildId) :
          /\ guilds[i].settings.prefix = "?"
          /\ guilds[i].settings.muteRole = "R"
          /\ guilds[i].name # Undefined

Named(b) == {f \in SettingsFields : b[f] # Undefined}

\* C6: whenever two update requests for the same guild that name different
\* fields are suspended at their store call, committing them in either order
\* leaves one document of that guild that holds the values of both.
C6_ConcurrentUpdatesKeepBoth ==
    \A r, q \in Reqs :
       (/\ r # q
        /\ req[r].pc = "findOneAndUpdate"
        /\ req[q].pc = "findOneAndUpdate"
        /\ req[r].guildId = req[q].guildId
        /\ Named(req[r].body) \cap Named(req[q].body) = {})
       => LET g == req[r].guildId
              after == FindOneAndUpdate(FindOneAndUpdate(guilds, g, req[r].body),
                                        g, req[q].body)
          IN  /\ Cardinality(DocsOf(after, g)) = 1
              /\ \A j \in DocsOf(after, g) :
                    /\ \A f \in Named(req[r].body) : after[j].settings[f] = req[r].body[f]
                    /\ \A f \in Named(req[q].body) : after[j].settings[f] = req[q].body[f]

C6_Witness ==
    /\ req[1].pc = "findOneAndUpdate"
    /\ req[2].pc = "findOneAndUpdate"
    /\ req[1].guildId = "G1"
    /\ req[2].guildId = "G1"
    /\ Named(req[1].body) = {"prefix"}
    /\ Named(req[2].body) = {"muteRole"}

\* C7: the collection never holds two documents with the same guildId, however
\* the find and create steps of concurrent first accesses interleave.
C7_OneDocumentPerGuild ==
    \A g \in GuildIds : Cardinality(DocsOf(guilds, g)) <= 1

\* Two first accesses of the same guild, both past a findOne that found nothing;
\* one of them has already created the document.
C7_Witness ==
    /\ req[1].pc = "idle"
    /\ req[2].pc = "create"
    /\ out.op = "get"
    /\ out.status = 200
    /\ out.guildId = req[2].guildId
    /\ DocsOf(guilds, req[2].guildId) # {}

\* C8: a get configuration whose findOne resolves while the guild's document
\* exists answers 200 with that document and changes neither store (unless the
\* store call fails); the one that finds nothing appends exactly the document
\* it answers with. So a second call in sequence returns the first call's
\* document and leaves the store as the first call left it.
C8_GetOrCreateIdempotent ==
    [][\A r \in Reqs :
          /\ (req[r].pc = "findOne" /\ req'[r] # req[r]
                /\ DocsOf(guilds, req[r].guildId) # {})
             => /\ req'[r] = Idle
                /\ StoresUnchanged
                /\ out'.op = "get"
                /\ \/ out'.status = 500
                   \/ /\ out'.status = 200
                      /\ \E i \in DocsOf(guilds, req[r].guildId) : out'.body = guilds[i]
          /\ AnsweredAfter(r, "create", 200)
             => /\ guilds' = Append(guilds, out'.body)
                /\ out'.body.guildId = req[r].guildId
                /\ out'.body.settings = DefaultSettings
                /\ legacy' = legacy]_vars

\* The answer of a call that created nothing: the document it returns is the
\* older of two, untouched since a get configuration created it.
C8_Witness ==
    /\ out.op = "get"
    /\ out.status = 200
    /\ Len(guilds) = 2
    /\ out.body = guilds[1]
    /\ out.body.name # Undefined
    /\ out.body.settings = DefaultSettings

Holders(map, w) == {g \in GuildIds : map[g] = w}

\* C9: an entry of the legacy map changes only in the step that commits a
\* welcome-channel request for its guild, and then holds that request's value
\* whatever it held before; the value it held is kept nowhere: no other entry
\* takes it over and the guild documents are not touched.
C9_LastWriteWins ==
    [][/\ \A g \in GuildIds :
             legacy'[g] # legacy[g]
             => \E r \in Reqs : /\ AnsweredAfter(r, "updateOne", 200)
                                /\ req[r].guildId = g
       /\ \A r \in Reqs :
             AnsweredAfter(r, "updateOne", 200)
             => LET g == req[r].guildId
                    v == req[r].welcomeChannel
                IN  /\ legacy'[g] = v
                    /\ out'.body.welcomeChannel = v
                    /\ legacy[g] # v
                       => /\ Holders(legacy', legacy[g]) = Holders(legacy, legacy[g]) \ {g}
                          /\ guilds' = guilds]_vars

C9_Witness ==
    /\ out.op = "welcome"
    /\ out.status = 200
    /\ out.guildId = "G2"
    /\ out.body.welcomeChannel = "67890"
    /\ legacy["G2"] = "67890"
    /\ legacy["G1"] = "12345"

\* C10: for an identity whose list names each guild once, each of the three
\* permission checks admits a request (suspends it at its awaited call) exactly
\* when the entry of the target guild carries the bit of weight 32, and answers
\* 403 or 404 on arrival otherwise, the empty bitmask included; the two forms of
\* the check in the code agree on every guild.
C10_GateIsBit32 ==
    /\ \A r \in Reqs :
          req[r] # Idle => CanAdminister(sessionUser, req[r].guildId)
    /\ (out # NoOut /\ out.status \in {401, 403, 404})
          => /\ ~CanAdminister(sessionUser, out.guildId)
             /\ out.status # 401
    /\ \A g \in GuildIds :
          LET i == UserGuildIndex(sessionUser, g)
          IN  /\ HasManagedGuild(sessionUser, g) <=> CanAdminister(sessionUser, g)
              /\ (i # 0 /\ HasPermission(sessionUser.guilds[i]))
                    <=> CanAdminister(sessionUser, g)

\* A rejection that rests on the bit alone: every lower bit is set.
C10_Witness ==
    /\ out.op = "channels"
    /\ out.status = 403
    /\ \E i \in Memberships(sessionUser, out.guildId) :
          sessionUser.guilds[i].permissions = 31
    /\ \E g \in GuildIds : \E i \in Memberships(sessionUser, g) :
          sessionUser.guilds[i].permissions = 2147483647

\* The three permission-checked routes for an identity fixed at the start, drawn
\* from GateUsers, one request at a time.
GateInit ==
    /\ sessionUser \in GateUsers
    /\ guilds = <<>>
    /\ legacy = [g \in GuildIds |-> Undefined]
    /\ req = [r \in Reqs |-> Idle]
    /\ out = NoOut

GateNext ==
    \/ \E g \in GuildIds : GetStart(1, g)
    \/ GetFindOne(1)
    \/ GetCreate(1)
    \/ \E g \in GuildIds : WelcomeStart(1, g, "12345")
    \/ WelcomeCommit(1)
    \/ ChannelsStep(1)
    \/ AwaitFails(1)

GateSpec == GateInit /\ [][GateNext]_vars

\* ------------------------------------------------------------- mutual guilds
\* The lists the provider can answer for the automation actor: each guild once.
BotLists ==
    {s \in UNION {[1..n -> {BotEntry(g) : g \in GuildIds}] : n \in 0..MaxMemberships} :
        \A i, j \in 1..Len(s) : s[i].id = s[j].id => i = j}

MutualStep(r) ==
    \/ MutualStart(r)
    \/ \E b \in BotLists : MutualFetched(r, b)
    \/ MutualDone(r)

\* GET /api/guilds for an identity fixed at the start, drawn from GateUsers, one
\* request at a time.
MutualNext ==
    \/ MutualStep(1)
    \/ AwaitFails(1)

MutualSpec == GateInit /\ [][MutualNext]_vars

\* Positions of the identity's list whose guild occurs in the actor's list.
Shared(userGuilds, botGuilds) ==
    {i \in 1..Len(userGuilds) :
        \E j \in 1..Len(botGuilds) : botGuilds[j].id = userGuilds[i].id}

\* C11: the list of guilds is read from the identity when the request arrives, and
\* the answer holds exactly the entries of that list whose guild occurs in the
\* actor's list, in the order of the identity's list and as the identity carries
\* them (bitmask included); it is the empty sequence when no guild is shared.
C11_MutualGuilds ==
    [][\A r \in Reqs :
          /\ (req[r] = Idle /\ req'[r] # Idle /\ req'[r].op = "guilds")
                => req'[r].userGuilds = sessionUser.guilds
          /\ AnsweredAfter(r, "json", 200) =>
                LET u == req[r].userGuilds
                    keep == Shared(u, req[r].upstream)
                    res == out'.body.guilds
                IN  /\ Len(res) = Cardinality(keep)
                    /\ \A i \in keep : res[Cardinality({k \in keep : k <= i})] = u[i]
                    /\ keep = {} => res = <<>>]_vars

\* A list of two guilds of which the actor shares the second only.
C11_Witness ==
    /\ out.op = "guilds"
    /\ out.status = 200
    /\ Len(sessionUser.guilds) = 2
    /\ out.body.guilds = <<sessionUser.guilds[2]>>
    /\ sessionUser.guilds[2].permissions = 40

\* ------------------------------------------------------------- session manager
AuthStep(r) ==
    \/ AuthBegin(r)
    \/ CallbackStart(r)
    \/ \E u \in Users : CallbackDone(r, u)
    \/ CallbackFail(r)
    \/ LogoutStart(r)
    \/ LogoutDone(r)
    \/ LogoutFails(r)
    \/ LogoutDestroyed(r)
    \/ Me(r)

\* The auth routes step by step, with the routes that read the identity and the
\* get configuration route, one request at a time, from an anonymous session.
SessionNext ==
    \/ AuthStep(1)
    \/ MutualStep(1)
    \/ ChannelsStep(1)
    \/ \E g \in GuildIds : GetStart(1, g)
    \/ GetFindOne(1)
    \/ GetCreate(1)
    \/ AwaitFails(1)

SessionSpec == Init /\ [][SessionNext]_vars

\* Routes that take the identity of the session.
IdentityOps == {"me", "guilds", "channels", "get", "update", "welcome"}

\* C12: the session gets an identity only in the step that completes a callback
\* with the redirect to the account page; a callback that fails leaves the
\* session as it was; the identity is removed only by the logout route, and the
\* logout that answers 200 leaves no identity; while the session has no
\* identity, every request for the identity or to a gated route is answered 401
\* on arrival.
C12_SessionStateMachine ==
    [][/\ (sessionUser' # sessionUser /\ sessionUser' # NoUser) =>
             \E r \in Reqs : /\ AnsweredAfter(r, "exchange", 302)
                             /\ out'.body.location = "/account.html"
       /\ \A r \in Reqs :
             (/\ req[r].pc = "exchange"
              /\ req'[r] = Idle
              /\ out' # Response("callback", "", 302, [location |-> "/account.html"]))
             => sessionUser' = sessionUser
       /\ (sessionUser # NoUser /\ sessionUser' = NoUser) =>
             \E r \in Reqs : req[r].pc = "logout"
       /\ (out'.op = "logout" /\ out'.status = 200) => sessionUser' = NoUser
       /\ sessionUser = NoUser =>
             /\ \A r \in Reqs : (req[r] = Idle /\ req'[r] # Idle)
                                   => req'[r].op \notin IdentityOps
             /\ (AnsweredOnArrival /\ out'.op \in IdentityOps) => out'.status = 401]_vars

\* The identity is asked for and refused in a session that had an identity
\* before: a document of the collection was created by a get request.
C12_Witness ==
    /\ out = Response("me", "", 401, ErrorBody("Not logged in"))
    /\ sessionUser = NoUser
    /\ guilds # <<>>

\* C13: the logout route is never refused: its only answers are 200 with
\* {success: true} and the instruction to clear the session cookie, given in the
\* step that ends session.destroy, and 500 when req.logout reports an error; no
\* step of a logout gives the session an identity, the 200 leaves the session
\* without one, whatever the session was when the request arrived, and no step
\* of a logout changes a store.
C13_LogoutIdempotent ==
    [][/\ out'.op = "logout" =>
             \E r \in Reqs :
                \/ /\ AnsweredAfter(r, "destroy", 200)
                   /\ out'.body = [success |-> TRUE, clearCookie |-> "connect.sid"]
                   /\ sessionUser' = NoUser
                \/ /\ AnsweredAfter(r, "logout", 500)
       /\ \A r \in Reqs :
             (req[r].pc \in {"logout", "destroy"} /\ req'[r] # req[r]) =>
                /\ sessionUser' \in {sessionUser, NoUser}
                /\ StoresUnchanged
                /\ req[r].pc = "destroy" => AnsweredAfter(r, "destroy", 200)]_vars

\* A logout that arrived in a session without identity is past req.logout.
C13_Witness ==
    /\ req[1].pc = "destroy"
    /\ req[1].user = NoUser
    /\ sessionUser = NoUser

\* ------------------------------------------------------------- consistency report
ReportStep(r) ==
    \/ ReportStart(r)
    \/ ReportLegacyRead(r)
    \/ ReportDone(r)

\* Bodies of POST /api/guild/:id that name the welcome channel only.
ReportBodies == {Body(Undefined, Undefined, w) : w \in WelcomeValues \cup {""}}

\* The two writers of a welcome channel and the report, one request at a time,
\* for a session that keeps the identity it logged in with.
ReportNext ==
    \/ WelcomeStep(1)
    \/ \E g \in GuildIds, b \in ReportBodies : UpdateStart(1, g, b)
    \/ UpdateCommit(1)
    \/ ReportStep(1)
    \/ AwaitFails(1)

ReportSpec == SettingsInit /\ [][ReportNext]_vars

C15_AbsentOrInsufficient ==
    [][/\ (sessionUser # NoUser /\ AnsweredOnArrival /\ out'.op = "get") =>
             \/ out'.status = 404 /\ Memberships(sessionUser, out'.guildId) = {}
             \/ out'.status = 403 /\ LacksBit(sessionUser, out'.guildId)
       /\ \A r \in Reqs :
             /\ (req[r] = Idle /\ req'[r] # Idle /\ req'[r].op = "get") =>
                   /\ req'[r].pc = "findOne"
                   /\ CanAdminister(sessionUser, req'[r].guildId)
             /\ (req[r].pc \in {"findOne", "create"} /\ guilds' # guilds) =>
                   req[r].pc = "create"]_vars

\* A guild that is not in the list is answered 404, and not 403, for an identity
\* whose only entry, for the other guild, carries the bit.
C15_Witness ==
    /\ out.op = "get"
    /\ out.status = 404
    /\ Len(sessionUser.guilds) = 1
    /\ sessionUser.guilds[1].permissions = 32

\* ------------------------------------------------------------- persistence
\* Every route that reads or writes a store, and the auth routes, one request at
\* a time, from an anonymous session and empty stores.
PersistNext ==
    \/ AuthStep(1)
    \/ SettingsStep(1)
    \/ WelcomeStep(1)
    \/ ReportStep(1)
    \/ AwaitFails(1)

PersistSpec == Init /\ [][PersistNext]_vars

\* C16: in every step, each document of the collection is still there afterwards
\* with the _id and the guildId it had, and each guild that has a key in the
\* legacy map still has one.
C16_EntriesPersist ==
    [][/\ \A i \in 1..Len(guilds) : \E k \in 1..Len(guilds') :
             /\ guilds'[k]._id = guilds[i]._id
             /\ guilds'[k].guildId = guilds[i].guildId
       /\ LegacyKeys(legacy) \subseteq LegacyKeys(legacy')]_vars

\* Both guilds have a document and a key, written by two identities, and the
\* session has ended since.
C16_Witness ==
    /\ out.op = "logout"
    /\ out.status = 200
    /\ Len(guilds) = 2
    /\ LegacyKeys(legacy) = GuildIds

\* ------------------------------------------------------------- concurrent first access
\* The routes over the "guilds" collection with requests suspended in any of the
\* slots and a store whose calls never reject: SettingsSpec without AwaitFails.
AvailableNext == \E r \in Reqs : SettingsStep(r)

AvailableSpec == SettingsInit /\ [][AvailableNext]_vars

\* C17: while no store call rejects, the step that ends a get configuration
\* request after its findOne or its create answers 200 with the document of the
\* requested guild.
C17_GetOrCreateAnswers200 ==
    [][\A r \in Reqs :
          (req[r].pc \in {"findOne", "create"} /\ req'[r] = Idle) =>
             /\ out'.status = 200
             /\ out'.body.guildId = req[r].guildId]_vars

\* ------------------------------------------------------------- cached guild metadata
\* C18: every document of the collection carries the name and the icon of its
\* guild as the identities' lists give them, and so does every document that a
\* get configuration request answers with.
C18_DocumentsCarryNameAndIcon ==
    /\ \A i \in 1..Len(guilds) :
          /\ guilds[i].name = GuildEntry(guilds[i].guildId, 0).name
          /\ guilds[i].icon = GuildEntry(guilds[i].guildId, 0).icon
    /\ (out.op = "get" /\ out.status = 200) =>
          /\ out.body.name # Undefined
          /\ out.body.icon # Undefined

\* ------------------------------------------------------------- fields of an update
\* Bodies of POST /api/guild/:id as they arrive: with a key that is not one of
\* the five, with the empty string as a value, with neither.
RawBodies ==
    {[color |-> "red"],
     [prefix |-> "", color |-> "red"],
     [muteRole |-> "R"],
     [welcomeChannel |-> ""]}

\* The routes over the "guilds" collection and the welcome-channel route, one
\* request at a time, for a session that keeps the identity it logged in with.
FieldsNext ==
    \/ \E g \in GuildIds : GetStart(1, g)
    \/ GetFindOne(1)
    \/ GetCreate(1)
    \/ \E g \in GuildIds, b \in RawBodies : UpdateStart(1, g, b)
    \/ UpdateCommit(1)
    \/ \E g \in GuildIds : WelcomeStart(1, g, "12345")
    \/ WelcomeCommit(1)
    \/ AwaitFails(1)

FieldsSpec == SettingsInit /\ [][FieldsNext]_vars

DocFields == {"_id", "guildId", "name", "icon", "settings"}

\* C19: whatever the collection holds, the update of a guild with a body that
\* may carry other keys leaves one document for the guild whose settings hold
\* the body's value, the empty string included, for each of the five names the
\* body has and the value they held (the schema default in a new document) for
\* the others; the document has no field beyond those of the schema, keeps its
\* guildId, name and icon, and no other document changes. The request keeps
\* only the five names of the body, is answered 200 {success: true} when the
\* update commits, and leaves the legacy map as it is.
C19_UnknownIgnoredEmptyKept ==
    [][/\ \A g \in GuildIds, raw \in RawBodies :
             LET after == FindOneAndUpdate(guilds, g, Destructure(raw))
                 old == DocsOf(guilds, g)
             IN  /\ \A i \in 1..Len(guilds) :
                       /\ guilds[i].guildId # g => after[i] = guilds[i]
                       /\ guilds[i].guildId = g =>
                             /\ after[i].guildId = g
                             /\ after[i].name = guilds[i].name
                             /\ after[i].icon = guilds[i].icon
                 /\ Len(after) = (IF old = {} THEN Len(guilds) + 1 ELSE Len(guilds))
                 /\ \A k \in DocsOf(after, g) :
                       /\ DOMAIN after[k] = DocFields
                       /\ DOMAIN after[k].settings = SettingsFields
                       /\ \A f \in SettingsFields :
                             after[k].settings[f] =
                                IF f \in DOMAIN raw THEN raw[f]
                                ELSE IF old = {} THEN SchemaDefault(f)
                                ELSE guilds[k].settings[f]
       /\ \A r \in Reqs :
             /\ (req[r] = Idle /\ req'[r] # Idle /\ req'[r].op = "update") =>
                   DOMAIN req'[r].body = SettingsFields
             /\ (req[r].pc = "findOneAndUpdate" /\ req'[r] = Idle /\ out'.status # 500) =>
                   /\ out' = Response("update", req[r].guildId, 200, [success |-> TRUE])
                   /\ guilds' = FindOneAndUpdate(guilds, req[r].guildId, req[r].body)
                   /\ legacy' = legacy]_vars

\* An update has stored the empty string as prefix in a document that a get
\* request created, while the legacy map holds a channel.
C19_Witness ==
    /\ out = Response("update", "G1", 200, [success |-> TRUE])
    /\ \E i \in DocsOf(guilds, "G1") :
          /\ guilds[i].settings.prefix = ""
          /\ guilds[i].name # Undefined
    /\ legacy["G1"] = "12345"
====
